---- MODULE Spec2Model ----
(***************************************************************************)
(* Block rules of the web-api-manager add-on (add-on/lib/blockrules.js):   *)
(* the match-pattern compiler with its process-wide cache, the host test,  *)
(* and the BlockRule object with its (de)serialisation.                     *)
(*                                                                         *)
(* A JavaScript string is a sequence of one-character strings, so that     *)
(* escaping, slicing and regular-expression matching are computed          *)
(* character by character.                                                 *)
(***************************************************************************)
EXTENDS Integers, Sequences, FiniteSets, TLC

VARIABLES
    reCache,        \* the module-level Map of makeRe: key text -> RegExp
    pc,             \* "idle": the caller is about to call; "returned": it holds the result
    ret,            \* what the last matcher call returned
    heap,           \* the live JavaScript arrays: reference -> elements
    callerArray,    \* the array the caller holds in its own variable (0: none)
    rule,           \* the BlockRule the caller holds: its closure variables
    out             \* the last step on the rule and what it returned

vars == <<reCache, pc, ret, heap, callerArray, rule, out>>
matcherVars == <<reCache, ret>>
ruleVars == <<heap, callerArray, rule, out>>

-----------------------------------------------------------------------------
(* Bounds and input alphabets *)

MaxLen == 1         \* longest pattern body and longest general host that is tried
MaxHistory == 1     \* cache entries that may exist before a call that compiles
MaxIds == 3         \* longest array of standard ids

PatChars == {"a", ".", "*"}
HostChars == {"a", "A", "."}
IdValues == {2, 10}

Strings(chars, n) == UNION {[1..k -> chars] : k \in 0..n}

Bodies == Strings(PatChars, MaxLen)
Negate(p) == <<"!">> \o p
SubdomainOf(d) == <<"*", ".">> \o d
Sub(d) == <<"s", "u", "b", ".">> \o d
IsSubdomainPattern(p) == Len(p) >= 2 /\ SubSeq(p, 1, 2) = <<"*", ".">>
DomainOf(p) == SubSeq(p, 3, Len(p))

-----------------------------------------------------------------------------
(* Strings *)

StartsWith(s, prefix) ==
    Len(s) >= Len(prefix) /\ SubSeq(s, 1, Len(prefix)) = prefix

EndsWith(s, suffix) ==
    Len(s) >= Len(suffix) /\ SubSeq(s, Len(s) - Len(suffix) + 1, Len(s)) = suffix

\* Canonicalize of the "i" flag: the upper-case form of an ASCII letter.
Canonicalize(c) ==
    CASE c = "a" -> "A"
      [] c = "b" -> "B"
      [] c = "s" -> "S"
      [] c = "u" -> "U"
      [] OTHER -> c

EqualsIgnoreCase(s, t) ==
    Len(s) = Len(t) /\ \A i \in 1..Len(s) : Canonicalize(s[i]) = Canonicalize(t[i])

-----------------------------------------------------------------------------
(* escapeStringRegexp and the pattern compiler *)

matchOperatorsRe == {"|", "\\", "{", "}", "(", ")", "[", "]", "^", "$", "+", "*", "?", "."}

RECURSIVE escapeStringRegexp(_)
escapeStringRegexp(aString) ==
    IF aString = <<>> THEN <<>>
    ELSE (IF Head(aString) \in matchOperatorsRe
          THEN <<"\\", Head(aString)>>
          ELSE <<Head(aString)>>) \o escapeStringRegexp(Tail(aString))

\* .replace(/\\\*/g, ".*"): every backslash-star, leftmost first, becomes ".*".
RECURSIVE ReplaceEscapedStar(_)
ReplaceEscapedStar(s) ==
    IF s = <<>> THEN <<>>
    ELSE IF Len(s) >= 2 /\ s[1] = "\\" /\ s[2] = "*"
         THEN <<".", "*">> \o ReplaceEscapedStar(SubSeq(s, 3, Len(s)))
         ELSE <<s[1]>> \o ReplaceEscapedStar(Tail(s))

\* new RegExp(source, "i") with its negated property.
RegExp(source, negated) == [source |-> source, negated |-> negated]

\* Does the unanchored regular-expression text pat match str from its first
\* character on: up to the end of str (toEnd) or any prefix of it. The atoms
\* are an escaped character, "." and a plain character, each possibly
\* followed by "*"; letters compare under the "i" flag.
RECURSIVE MatchHere(_, _, _)
MatchHere(pat, str, toEnd) ==
    IF pat = <<>> THEN (toEnd => str = <<>>)
    ELSE LET escaped == pat[1] = "\\" /\ Len(pat) >= 2
             atomLen == IF escaped THEN 2 ELSE 1
             starred == Len(pat) > atomLen /\ pat[atomLen + 1] = "*"
             rest == SubSeq(pat, atomLen + (IF starred THEN 2 ELSE 1), Len(pat))
             AtomMatches(c) ==
                 IF escaped THEN Canonicalize(c) = Canonicalize(pat[2])
                 ELSE IF pat[1] = "." THEN TRUE
                 ELSE Canonicalize(c) = Canonicalize(pat[1])
         IN IF starred
            THEN \E k \in 0..Len(str) :
                    /\ \A i \in 1..k : AtomMatches(str[i])
                    /\ MatchHere(rest, SubSeq(str, k + 1, Len(str)), toEnd)
            ELSE /\ str # <<>>
                 /\ AtomMatches(str[1])
                 /\ MatchHere(rest, Tail(str), toEnd)

\* The text between "^" and "$" is a negative lookahead "(?!...)". The only
\* unescaped parenthesis makeRe produces is the one of its negation wrapper.
IsLookahead(inner) ==
    /\ Len(inner) >= 4
    /\ SubSeq(inner, 1, 3) = <<"(", "?", "!">>
    /\ inner[Len(inner)] = ")"

\* RegExp.prototype.test of a makeRe expression "^...$": "^" pins the match to
\* the start of str. A lookahead consumes nothing, so after "^(?!body)" the
\* "$" is tested where the match started.
RegExpTest(re, str) ==
    LET inner == SubSeq(re.source, 2, Len(re.source) - 1)
    IN IF IsLookahead(inner)
       THEN /\ ~MatchHere(SubSeq(inner, 4, Len(inner) - 1), str, FALSE)
            /\ str = <<>>
       ELSE MatchHere(inner, str, TRUE)

EmptyCache == <<>>

MapSet(map, key, value) ==
    [k \in DOMAIN map \cup {key} |-> IF k = key THEN value ELSE map[k]]

\* The text under which makeRe stores the expression: matchPattern has been
\* reassigned by the time reCache.set(matchPattern, re) runs.
CacheKey(original, compiled) == compiled

\* makeRe: the expression returned, the cache afterwards, and whether the
\* expression came from the cache.
makeRe(cache, matchPattern) ==
    IF matchPattern \in DOMAIN cache
    THEN [re |-> cache[matchPattern], cache |-> cache, cached |-> TRUE]
    ELSE LET negated == matchPattern # <<>> /\ matchPattern[1] = "!"
             sliced == IF negated THEN Tail(matchPattern) ELSE matchPattern
             replaced == ReplaceEscapedStar(escapeStringRegexp(sliced))
             compiled == IF negated
                         THEN <<"(", "?", "!">> \o replaced \o <<")">>
                         ELSE replaced
             re == RegExp(<<"^">> \o compiled \o <<"$">>, negated)
         IN [re |-> re,
             cache |-> MapSet(cache, CacheKey(matchPattern, compiled), re),
             cached |-> FALSE]

\* A test without the bare-domain fallback: the compiled expression alone decides.
testPatternWithHostByRegExp(cache, matchPattern, host) ==
    LET compiledPattern == makeRe(cache, matchPattern)
    IN [matched |-> RegExpTest(compiledPattern.re, host),
        cache |-> compiledPattern.cache]

\* testPatternWithHost: the boolean returned and the cache afterwards.
testPatternWithHost(cache, matchPattern, host) ==
    LET compiledPattern == makeRe(cache, matchPattern)
    IN [matched |->
            \/ RegExpTest(compiledPattern.re, host)
            \/ /\ StartsWith(matchPattern, <<"*", ".">>)
               /\ EndsWith(matchPattern, host)
               /\ Len(matchPattern) = Len(host) + 2,
        cache |-> compiledPattern.cache]

-----------------------------------------------------------------------------------------------------------------------------------------------------
(* The calls that are tried *)

\* The text makeRe compiles a pattern to is itself a text a caller can pass.
CompiledText(p) ==
    LET source == makeRe(EmptyCache, p).re.source
    IN SubSeq(source, 2, Len(source) - 1)

Patterns ==
    Bodies \cup {Negate(b) : b \in Bodies} \cup {SubdomainOf(b) : b \in Bodies}
           \cup {CompiledText(b) : b \in Bodies}

Hosts == Strings(HostChars, MaxLen)

\* The hosts a pattern is tried on: the general hosts, the pattern's own text,
\* and for "*." + d the bare domain d and a subdomain of it.
HostsFor(p) ==
    Hosts \cup {p} \cup (IF IsSubdomainPattern(p) THEN {DomainOf(p), Sub(DomainOf(p))} ELSE {})

-----------------------------------------------------------------------------
(* JavaScript values, arrays and JSON *)

Undefined == [kind |-> "undefined", str |-> <<>>, num |-> 0, elems |-> <<>>]
Str(s) == [kind |-> "string", str |-> s, num |-> 0, elems |-> <<>>]
Num(n) == [kind |-> "number", str |-> <<>>, num |-> n, elems |-> <<>>]
Arr(es) == [kind |-> "array", str |-> <<>>, num |-> 0, elems |-> es]

NumArr(ids) == Arr([i \in 1..Len(ids) |-> Num(ids[i])])

DigitChars == <<"0", "1", "2", "3", "4", "5", "6", "7", "8", "9">>
IsDigit(c) == \E d \in 1..10 : DigitChars[d] = c
DigitValue(c) == (CHOOSE d \in 1..10 : DigitChars[d] = c) - 1

\* String(n) of a non-negative integer.
RECURSIVE NumberToString(_)
NumberToString(n) ==
    IF n < 10 THEN <<DigitChars[n + 1]>>
    ELSE NumberToString(n \div 10) \o <<DigitChars[(n % 10) + 1]>>

\* s < t as JavaScript compares strings of digits: by code unit, a proper
\* prefix first.
RECURSIVE StringLess(_, _)
StringLess(s, t) ==
    IF t = <<>> THEN FALSE
    ELSE IF s = <<>> THEN TRUE
    ELSE IF Head(s) = Head(t) THEN StringLess(Tail(s), Tail(t))
    ELSE DigitValue(Head(s)) < DigitValue(Head(t))

\* The comparators: (a, b) => (a - b) puts a first when a - b < 0; the default
\* one compares the elements as strings.
NumericCompare == "numeric"
StringCompare == "string"
Before(compare, a, b) ==
    IF compare = NumericCompare THEN a - b < 0
    ELSE StringLess(NumberToString(a), NumberToString(b))

\* Array.prototype.sort, in place and stable: an insertion sort.
RECURSIVE InsertSorted(_, _, _)
InsertSorted(sorted, x, compare) ==
    IF sorted = <<>> THEN <<x>>
    ELSE IF Before(compare, x, Head(sorted)) THEN <<x>> \o sorted
    ELSE <<Head(sorted)>> \o InsertSorted(Tail(sorted), x, compare)

RECURSIVE SortWith(_, _)
SortWith(array, compare) ==
    IF array = <<>> THEN <<>>
    ELSE InsertSorted(SortWith(SubSeq(array, 1, Len(array) - 1), compare),
                      array[Len(array)], compare)

\* .sort() without a comparator orders the elements as strings.
SortAsStrings(array) == SortWith(array, StringCompare)

\* localStandardIds.sort((a, b) => (a - b))
SortNumeric(array) == SortWith(array, NumericCompare)

\* JSON.stringify of a string: quoted, with '"' and '\' escaped.
RECURSIVE QuoteChars(_)
QuoteChars(s) ==
    IF s = <<>> THEN <<>>
    ELSE (IF Head(s) \in {"\"", "\\"} THEN <<"\\", Head(s)>> ELSE <<Head(s)>>)
         \o QuoteChars(Tail(s))

RECURSIVE JoinNumbers(_)
JoinNumbers(ids) ==
    IF ids = <<>> THEN <<>>
    ELSE IF Len(ids) = 1 THEN NumberToString(ids[1])
    ELSE NumberToString(ids[1]) \o <<",">> \o JoinNumbers(Tail(ids))

StringifyScalar(v) ==
    IF v.kind = "string" THEN <<"\"">> \o QuoteChars(v.str) \o <<"\"">>
    ELSE NumberToString(v.num)

\* JSON.stringify({p: p, s: s}) for a string or number p and an array s of
\* non-negative integers.
JSONStringify(p, s) ==
    <<"{", "\"", "p", "\"", ":">> \o StringifyScalar(p)
        \o <<",", "\"", "s", "\"", ":", "[">> \o JoinNumbers(s) \o <<"]", "}">>

\* A serialiser that puts the text together without escaping p.
ConcatStringify(p, s) ==
    <<"{", "\"", "p", "\"", ":">>
        \o (IF p.kind = "string" THEN <<"\"">> \o p.str \o <<"\"">> ELSE NumberToString(p.num))
        \o <<",", "\"", "s", "\"", ":", "[">> \o JoinNumbers(s) \o <<"]", "}">>

(* JSON.parse, for texts without white space: an object whose members are    *)
(* strings, non-negative integers, or arrays of those. Every parser returns  *)
(* [ok, value, next], next being the position after what it read.           *)
ParseFail == [ok |-> FALSE, value |-> Undefined, next |-> 0]

RECURSIVE ParseStringChars(_, _, _)
ParseStringChars(text, i, acc) ==
    IF i > Len(text) THEN ParseFail
    ELSE IF text[i] = "\"" THEN [ok |-> TRUE, value |-> Str(acc), next |-> i + 1]
    ELSE IF text[i] = "\\"
         THEN IF i + 1 <= Len(text) /\ text[i + 1] \in {"\"", "\\"}
              THEN ParseStringChars(text, i + 2, Append(acc, text[i + 1]))
              ELSE ParseFail
    ELSE ParseStringChars(text, i + 1, Append(acc, text[i]))

ParseString(text, i) ==
    IF i <= Len(text) /\ text[i] = "\"" THEN ParseStringChars(text, i + 1, <<>>)
    ELSE ParseFail

RECURSIVE ParseDigits(_, _, _)
ParseDigits(text, i, acc) ==
    IF i <= Len(text) /\ IsDigit(text[i])
    THEN ParseDigits(text, i + 1, 10 * acc + DigitValue(text[i]))
    ELSE [ok |-> TRUE, value |-> Num(acc), next |-> i]

ParseNumber(text, i) ==
    IF i > Len(text) \/ ~IsDigit(text[i]) THEN ParseFail
    ELSE IF text[i] = "0" /\ i + 1 <= Len(text) /\ IsDigit(text[i + 1]) THEN ParseFail
    ELSE ParseDigits(text, i, 0)

ParseScalar(text, i) ==
    IF i <= Len(text) /\ text[i] = "\"" THEN ParseString(text, i) ELSE ParseNumber(text, i)

RECURSIVE ParseElements(_, _, _)
ParseElements(text, i, acc) ==
    LET e == ParseScalar(text, i)
    IN IF ~e.ok \/ e.next > Len(text) THEN ParseFail
       ELSE IF text[e.next] = "]"
            THEN [ok |-> TRUE, value |-> Arr(Append(acc, e.value)), next |-> e.next + 1]
       ELSE IF text[e.next] = ","
            THEN ParseElements(text, e.next + 1, Append(acc, e.value))
       ELSE ParseFail

ParseValue(text, i) ==
    IF i > Len(text) THEN ParseFail
    ELSE IF text[i] = "["
         THEN IF i + 1 <= Len(text) /\ text[i + 1] = "]"
              THEN [ok |-> TRUE, value |-> Arr(<<>>), next |-> i + 2]
              ELSE ParseElements(text, i + 1, <<>>)
    ELSE ParseScalar(text, i)

NoObject == [p |-> Undefined, s |-> Undefined]

\* The members after position i; a later member of the same name replaces an
\* earlier one, and a member named neither p nor s is read and dropped.
RECURSIVE ParseMembers(_, _, _)
ParseMembers(text, i, object) ==
    LET key == ParseString(text, i)
        val == IF key.ok /\ key.next <= Len(text) /\ text[key.next] = ":"
               THEN ParseValue(text, key.next + 1)
               ELSE ParseFail
        object2 == IF key.value.str = <<"p">> THEN [object EXCEPT !.p = val.value]
                   ELSE IF key.value.str = <<"s">> THEN [object EXCEPT !.s = val.value]
                   ELSE object
    IN IF ~val.ok \/ val.next > Len(text) THEN [ok |-> FALSE, object |-> NoObject]
       ELSE IF text[val.next] = "}"
            THEN [ok |-> val.next = Len(text), object |-> object2]
       ELSE IF text[val.next] = ","
            THEN ParseMembers(text, val.next + 1, object2)
       ELSE [ok |-> FALSE, object |-> NoObject]

JSONParse(text) ==
    IF Len(text) < 2 \/ text[1] # "{" THEN [ok |-> FALSE, object |-> NoObject]
    ELSE IF text = <<"{", "}">> THEN [ok |-> TRUE, object |-> NoObject]
    ELSE ParseMembers(text, 2, NoObject)

-----------------------------------------------------------------------------
(* BlockRule: init, its closures, fromData and fromJSON *)

EmptyHeap == <<>>

\* A new array gets the least reference not in use.
Alloc(h) ==
    CHOOSE r \in 1..(Cardinality(DOMAIN h) + 1) :
        r \notin DOMAIN h /\ \A q \in 1..(r - 1) : q \in DOMAIN h

NoRule == [pattern |-> Undefined, localStandardIds |-> 0]

\* init: localStandardIds = standardIds.slice() is a new array with the
\* elements of standardIds; the rule is its pattern and that closure variable.
init(h, matchPattern, standardIds) ==
    LET localStandardIds == Alloc(h)
    IN [rule |-> [pattern |-> matchPattern, localStandardIds |-> localStandardIds],
        heap |-> MapSet(h, localStandardIds, standardIds)]

\* toData: sort() orders localStandardIds in place and returns that same array.
toData(h, r) ==
    [heap |-> [h EXCEPT ![r.localStandardIds] = SortNumeric(@)],
     p |-> r.pattern,
     s |-> r.localStandardIds]

\* A toJSON that builds the text by concatenation.
toJSONByConcat(h, r) ==
    LET data == toData(h, r)
    IN [heap |-> data.heap, text |-> ConcatStringify(data.p, data.heap[data.s])]

toJSON(h, r) ==
    LET data == toData(h, r)
    IN [heap |-> data.heap, text |-> JSONStringify(data.p, data.heap[data.s])]

setStandardIds(r, newStandardIds) == [r EXCEPT !.localStandardIds = newStandardIds]

\* getStandardIds: localStandardIds.slice(), a new array.
getStandardIds(h, r) ==
    LET copy == Alloc(h)
    IN [heap |-> MapSet(h, copy, h[r.localStandardIds]), array |-> copy]

\* fromData: throws (ok = FALSE, nothing constructed) or returns init's rule.
fromData(h, object) ==
    IF object.p.kind = "undefined" \/ object.s.kind = "undefined"
    THEN [ok |-> FALSE, rule |-> NoRule, heap |-> h]
    ELSE IF \/ object.s.kind # "array"
            \/ \E i \in 1..Len(object.s.elems) : object.s.elems[i].kind # "number"
         THEN [ok |-> FALSE, rule |-> NoRule, heap |-> h]
    ELSE LET made == init(h, object.p,
                          [i \in 1..Len(object.s.elems) |-> object.s.elems[i].num])
         IN [ok |-> TRUE, rule |-> made.rule, heap |-> made.heap]

\* fromJSON: JSON.parse throws on a malformed text, else fromData.
fromJSON(h, jsonString) ==
    LET data == JSONParse(jsonString)
    IN IF data.ok THEN fromData(h, data.object)
       ELSE [ok |-> FALSE, rule |-> NoRule, heap |-> h]

-----------------------------------------------------------------------------
(* State machines *)

NoRegExp == RegExp(<<>>, FALSE)
NoRet == [op |-> "none", pattern |-> <<>>, host |-> <<>>, re |-> NoRegExp,
          matched |-> FALSE, cached |-> FALSE]
NoOut == [op |-> "none", ok |-> TRUE, p |-> Undefined, array |-> 0, text |-> <<>>,
          object |-> NoObject]

RulePatterns == {<<"*", ".", "a">>, <<"\"", "\\">>}
IdArrays == Strings(IdValues, MaxIds)
\* The objects given to fromData: every kind of p with a few kinds of s, and
\* a string p with every array of ids.
Objects ==
    [p : {Undefined, Num(5)} \cup {Str(p) : p \in RulePatterns},
     s : {Undefined, Str(<<"2">>), Arr(<<Num(2), Str(<<"x">>)>>), NumArr(<<10, 2>>)}]
    \cup [p : {Str(<<"*", ".", "a">>)}, s : {NumArr(ids) : ids \in IdArrays}]

Init ==
    /\ reCache = EmptyCache
    /\ pc = "idle"
    /\ ret = NoRet
    /\ heap = EmptyHeap
    /\ callerArray = 0
    /\ rule = NoRule
    /\ out = NoOut

(* Calls on the shared pattern cache *)

\* A call that compiles is tried while the cache holds at most MaxHistory
\* entries; a call served from the cache is always tried.
MayCall(matchPattern) ==
    \/ matchPattern \in DOMAIN reCache
    \/ Cardinality(DOMAIN reCache) <= MaxHistory

MakeRe(matchPattern) ==
    /\ pc = "idle"
    /\ MayCall(matchPattern)
    /\ LET c == makeRe(reCache, matchPattern)
       IN /\ reCache' = c.cache
          /\ ret' = [op |-> "makeRe", pattern |-> matchPattern, host |-> <<>>,
                     re |-> c.re, matched |-> FALSE, cached |-> c.cached]
    /\ pc' = "returned"
    /\ UNCHANGED ruleVars

TestPatternWithHost(matchPattern, host) ==
    /\ pc = "idle"
    /\ MayCall(matchPattern)
    /\ LET t == testPatternWithHost(reCache, matchPattern, host)
       IN /\ reCache' = t.cache
          /\ ret' = [op |-> "test", pattern |-> matchPattern, host |-> host,
                     re |-> NoRegExp, matched |-> t.matched, cached |-> FALSE]
    /\ pc' = "returned"
    /\ UNCHANGED ruleVars

(* Steps of the caller that holds one array and one rule *)

\* The arrays still referenced once the step's result is res.
Collect(h, array, r, res) ==
    [a \in DOMAIN h \cap {array, r.localStandardIds, res.array} |-> h[a]]

\* a = [ids...]
NewArray(ids) ==
    /\ pc = "idle"
    /\ LET a == Alloc(heap)
       IN /\ callerArray' = a
          /\ out' = [NoOut EXCEPT !.op = "newArray"]
          /\ heap' = Collect(MapSet(heap, a, ids), a, rule, NoOut)
    /\ pc' = "returned"
    /\ UNCHANGED <<rule, matcherVars>>

\* The caller changes its array in place (push, pop, assignment, splice).
CallerMutates(ids) ==
    /\ pc = "idle"
    /\ callerArray # 0
    /\ ids # heap[callerArray]
    /\ heap' = [heap EXCEPT ![callerArray] = ids]
    /\ out' = [NoOut EXCEPT !.op = "callerMutates"]
    /\ pc' = "returned"
    /\ UNCHANGED <<callerArray, rule, matcherVars>>

\* rule = init(p, a)
CallInit(p) ==
    /\ pc = "idle"
    /\ callerArray # 0
    /\ LET made == init(heap, Str(p), heap[callerArray])
       IN /\ rule' = made.rule
          /\ out' = [NoOut EXCEPT !.op = "init"]
          /\ heap' = Collect(made.heap, callerArray, made.rule, NoOut)
    /\ pc' = "returned"
    /\ UNCHANGED <<callerArray, matcherVars>>

\* rule.setStandardIds(a)
SetStandardIds ==
    /\ pc = "idle"
    /\ rule # NoRule
    /\ callerArray # 0
    /\ rule' = setStandardIds(rule, callerArray)
    /\ out' = [NoOut EXCEPT !.op = "setStandardIds"]
    /\ heap' = Collect(heap, callerArray, rule', NoOut)
    /\ pc' = "returned"
    /\ UNCHANGED <<callerArray, matcherVars>>

\* rule.getStandardIds(); the caller reads the result and drops it, or keeps
\* it as its array.
GetStandardIds(keep) ==
    /\ pc = "idle"
    /\ rule # NoRule
    /\ LET got == getStandardIds(heap, rule)
       IN /\ out' = [NoOut EXCEPT !.op = "getStandardIds", !.array = got.array]
          /\ callerArray' = IF keep THEN got.array ELSE callerArray
          /\ heap' = Collect(got.heap, callerArray', rule, out')
    /\ pc' = "returned"
    /\ UNCHANGED <<rule, matcherVars>>

\* rule.toData()
ToData ==
    /\ pc = "idle"
    /\ rule # NoRule
    /\ LET data == toData(heap, rule)
       IN /\ heap' = data.heap
          /\ out' = [NoOut EXCEPT !.op = "toData", !.p = data.p, !.array = data.s]
    /\ pc' = "returned"
    /\ UNCHANGED <<callerArray, rule, matcherVars>>

\* rule.toJSON()
ToJSON ==
    /\ pc = "idle"
    /\ rule # NoRule
    /\ LET json == toJSON(heap, rule)
       IN /\ heap' = json.heap
          /\ out' = [NoOut EXCEPT !.op = "toJSON", !.text = json.text]
    /\ pc' = "returned"
    /\ UNCHANGED <<callerArray, rule, matcherVars>>

\* What a call of fromData or fromJSON leaves: the new rule in the caller's
\* variable, or after a throw the variable as it was.
Loaded(op, object, made) ==
    /\ rule' = IF made.ok THEN made.rule ELSE rule
    /\ out' = [NoOut EXCEPT !.op = op, !.ok = made.ok, !.object = object]
    /\ heap' = Collect(made.heap, callerArray, rule', NoOut)
    /\ pc' = "returned"
    /\ UNCHANGED <<callerArray, matcherVars>>

\* rule = fromData(object)
FromData(object) ==
    /\ pc = "idle"
    /\ Loaded("fromData", object, fromData(heap, object))

\* rule = fromJSON(text), text being what rule.toJSON() has just returned.
FromJSON ==
    /\ pc = "returned"
    /\ out.op = "toJSON"
    /\ Loaded("fromJSON", NoObject, fromJSON(heap, out.text))

\* The caller drops the returned value and goes on to its next call.
Return ==
    /\ pc = "returned"
    /\ pc' = "idle"
    /\ ret' = NoRet
    /\ out' = NoOut
    /\ heap' = Collect(heap, callerArray, rule, NoOut)
    /\ UNCHANGED <<reCache, callerArray, rule>>

Next ==
    \/ \E p \in Patterns : MakeRe(p)
    \/ \E p \in Patterns : MayCall(p) /\ \E h \in HostsFor(p) : TestPatternWithHost(p, h)
    \/ Return

Spec == Init /\ [][Next]_vars

RuleNext ==
    \/ \E ids \in IdArrays : NewArray(ids)
    \/ \E ids \in IdArrays : CallerMutates(ids)
    \/ \E p \in RulePatterns : CallInit(p)
    \/ SetStandardIds
    \/ \E keep \in BOOLEAN : GetStandardIds(keep)
    \/ ToData
    \/ ToJSON
    \/ \E object \in Objects : FromData(object)
    \/ FromJSON
    \/ Return

RuleSpec == Init /\ [][RuleNext]_vars

-----------------------------------------------------------------------------
(* The claims *)

Tested == pc = "returned" /\ ret.op = "test"
Compiled == pc = "returned" /\ ret.op = "makeRe"

\* C1: a pattern "!" + P, P not itself negated, matches a host exactly when
\* P does not match it.
NegationInvertsMatch ==
    (/\ Tested
     /\ StartsWith(ret.pattern, <<"!">>)
     /\ ~StartsWith(Tail(ret.pattern), <<"!">>))
    => ret.matched = ~testPatternWithHost(reCache, Tail(ret.pattern), ret.host).matched

IsLiteral(text) == \A i \in 1..Len(text) : text[i] \notin {"*", "!"}

\* host is neither the domain nor a name under it.
OtherDomain(host, domain) ==
    /\ ~EqualsIgnoreCase(host, domain)
    /\ ~(/\ Len(host) > Len(domain)
         /\ EqualsIgnoreCase(SubSeq(host, Len(host) - Len(domain), Len(host)),
                             <<".">> \o domain))

\* C2: whatever the cache holds, "*." + D matches the host D and the host
\* "sub." + D, and for a D without wildcard it matches no host of another domain.
SubdomainWildcardMatches ==
    (Tested /\ IsSubdomainPattern(ret.pattern))
    => LET domain == DomainOf(ret.pattern)
       IN /\ ret.host = domain => ret.matched
          /\ ret.host = Sub(domain) => ret.matched
          /\ (IsLiteral(domain) /\ OtherDomain(ret.host, domain)) => ~ret.matched

\* C2 witness: after an earlier compile of another pattern, "*.a" has been
\* tested on the bare domain "a" and matched.
SubdomainWildcardWitness ==
    /\ Tested
    /\ ret.pattern = <<"*", ".", "a">>
    /\ ret.host = <<"a">>
    /\ ret.matched
    /\ Cardinality(DOMAIN reCache) = 2

\* C3: a pattern without "*" and "!" matches a host exactly when the host is
\* the pattern, letter case aside, whatever was compiled before.
LiteralPatternMatchesOnlyItself ==
    (Tested /\ IsLiteral(ret.pattern))
    => (ret.matched <=> EqualsIgnoreCase(ret.host, ret.pattern))

\* C4: once makeRe(P) has returned, the cache holds the returned expression
\* under the text of P.
CacheKeyedByOriginalText ==
    Compiled
    => /\ ret.pattern \in DOMAIN reCache
       /\ reCache[ret.pattern] = ret.re

\* C5: the result of a test is the one the same call gives when nothing was
\* compiled before it.
MatchIndependentOfHistory ==
    Tested
    => ret.matched = testPatternWithHost(EmptyCache, ret.pattern, ret.host).matched

\* C6: a change the caller makes to an array of its own, one it passed to init
\* or to setStandardIds or one getStandardIds returned, does not change what
\* getStandardIds returns.
CallerMutationLeavesIdsAlone ==
    [][(out'.op = "callerMutates" /\ rule # NoRule)
       => heap'[rule'.localStandardIds] = heap[rule.localStandardIds]]_vars

IsSortedAscending(array) ==
    \A i \in 1..(Len(array) - 1) : array[i] <= array[i + 1]

Count(array, x) == Cardinality({i \in 1..Len(array) : array[i] = x})

SameElements(a, b) ==
    /\ Len(a) = Len(b)
    /\ \A i \in 1..Len(a) : Count(a, a[i]) = Count(b, a[i])

\* C7: toData returns the rule's pattern and the rule's ids of before the
\* call, each as often as it was there, in ascending numeric order; toJSON
\* returns the JSON text of that.
ToDataSortedAscending ==
    [][out'.op \in {"toData", "toJSON"}
       => LET s == heap'[rule.localStandardIds]
          IN /\ IsSortedAscending(s)
             /\ SameElements(s, heap[rule.localStandardIds])
             /\ out'.op = "toData"
                   => (out'.p = rule.pattern /\ out'.array = rule.localStandardIds)
             /\ out'.op = "toJSON" => out'.text = JSONStringify(rule.pattern, s)]_vars

\* C7 witness: the caller's array is still [10, 2]; toData of the rule made
\* from it has returned [2, 10].
ToDataSortedWitness ==
    /\ pc = "returned"
    /\ out.op = "toData"
    /\ callerArray # 0
    /\ out.array # callerArray
    /\ heap[callerArray] = <<10, 2>>
    /\ heap[out.array] = <<2, 10>>

Elements(array) == {array[i] : i \in 1..Len(array)}

\* C8: fromJSON of the text rule.toJSON() has just returned, for a rule with a
\* string pattern, succeeds with a rule of the same pattern and the same set
\* of ids.
JsonRoundTrip ==
    [][(out'.op = "fromJSON" /\ rule.pattern.kind = "string")
       => /\ out'.ok
          /\ rule'.pattern = rule.pattern
          /\ Elements(heap'[rule'.localStandardIds])
                = Elements(heap[rule.localStandardIds])]_vars

\* C8 witness: a rule whose pattern holds a quote and a backslash and whose
\* ids are [2, 10] has come back from fromJSON.
JsonRoundTripWitness ==
    /\ pc = "returned"
    /\ out.op = "fromJSON"
    /\ out.ok
    /\ rule.pattern = Str(<<"\"", "\\">>)
    /\ heap[rule.localStandardIds] = <<2, 10>>

\* An object fromData must reject: p or s missing, p no string, s no array of
\* numbers.
IsMalformed(object) ==
    \/ object.p.kind # "string"
    \/ object.s.kind # "array"
    \/ \E i \in 1..Len(object.s.elems) : object.s.elems[i].kind # "number"

\* C9: fromData throws on a malformed object, constructing no rule and leaving
\* the cache alone, and otherwise returns the rule init(object.p, object.s).
FromDataRejectsMalformed ==
    [][out'.op = "fromData"
       => IF IsMalformed(out'.object)
          THEN ~out'.ok /\ rule' = rule /\ reCache' = reCache
          ELSE /\ out'.ok
               /\ rule'.pattern = out'.object.p
               /\ NumArr(heap'[rule'.localStandardIds]) = out'.object.s]_vars

\* C10: toData and toJSON of a rule with a string pattern leave what
\* getStandardIds returns, and the array the caller holds, as they were.
SerializationIsReadOnly ==
    [][(out'.op \in {"toData", "toJSON"} /\ rule.pattern.kind = "string")
       => /\ heap'[rule.localStandardIds] = heap[rule.localStandardIds]
          /\ callerArray # 0 => heap'[callerArray] = heap[callerArray]]_vars

====
